---- MODULE Spec2Model ----
(***************************************************************************)
(* LateStatic<T> (src/src/lib.rs): a static value that is manually         *)
(* initialized at runtime.  The container holds one UnsafeCell<Option<T>>. *)
(* T is instantiated as the record type Foo { value: u32 } of the tests.   *)
(*                                                                         *)
(* Every operation runs to completion before the next one starts.  A       *)
(* panic unwinds out of the call and leaves the static where it is, so the *)
(* container can be used again afterwards (the #[should_panic] tests, a    *)
(* catch_unwind, another thread).                                          *)
(***************************************************************************)
EXTENDS Integers, Sequences, FiniteSets, TLC

(* ---- bounds ---------------------------------------------------------- *)
MaxValue == 2       \* Foo.value ranges over 0..MaxValue
MaxAssigns == 3     \* successful assigns counted per behaviour
NThreads == 3       \* threads that share the static
NRacers == 2        \* threads that call without synchronization

(* ---- the value type T ------------------------------------------------ *)
Values == 0..MaxValue

\* struct Foo { pub value: u32 }
Foo == [value : Values]

(* ---- Option<T> ------------------------------------------------------- *)
None == [some |-> FALSE]

Some(x) == [some |-> TRUE, v |-> x]

is_some(option) == option.some

(* ---- panic messages -------------------------------------------------- *)
MsgSecondAssign == "Second assignment to late static"

MsgClearWithoutValue == "Tried to clear a late static without a value"

MsgDerefBeforeAssign == "Dereference of late static before a value was assigned"

NoMsg == ""

(* ---- outcome of one call: the slot afterwards, whether the call -------*)
(* ---- returned or panicked, the panic message, the returned value ------*)
Returned(slot, r) == [val |-> slot, outcome |-> "ok", msg |-> NoMsg, ret |-> r]

Panicked(slot, m) == [val |-> slot, outcome |-> "panic", msg |-> m, ret |-> None]

(* ---- the operations of LateStatic<T>, on the content of the cell ----- *)
\* new() that starts out holding a default value
new_occupied == Some([value |-> 0])

\* pub const fn new() -> Self
new == None

\* has_value that ignores the slot
has_value_always(option) == TRUE

\* pub unsafe fn has_value(instance) -> bool
has_value(option) == is_some(option)

\* assign without the is_some check: a second assignment overwrites
assign_overwrite(option, v) == Returned(Some(v), None)

\* assign that forgets to store the value
assign_no_store(option, v) ==
    IF is_some(option)
    THEN Panicked(option, MsgSecondAssign)
    ELSE Returned(option, None)

\* pub unsafe fn assign(instance, val)
assign(option, v) ==
    IF is_some(option)
    THEN Panicked(option, MsgSecondAssign)
    ELSE Returned(Some(v), None)

\* clear that returns without resetting the slot
clear_keeps(option) ==
    IF ~has_value(option)
    THEN Panicked(option, MsgClearWithoutValue)
    ELSE Returned(option, None)

\* clear without the has_value check: clearing an empty slot is a no-op
clear_silent(option) == Returned(None, None)

\* pub unsafe fn clear(instance)
clear(option) ==
    IF ~has_value(option)
    THEN Panicked(option, MsgClearWithoutValue)
    ELSE Returned(None, None)

\* deref that hands out a default value when nothing is assigned
deref_default(option) ==
    IF is_some(option)
    THEN Returned(option, Some(option.v))
    ELSE Returned(option, Some([value |-> 0]))

\* deref that moves the value out of the slot (Option::take)
deref_take(option) ==
    IF is_some(option)
    THEN Returned(None, Some(option.v))
    ELSE Panicked(option, MsgDerefBeforeAssign)

\* fn deref(&self) -> &T : the value the returned reference points at
deref(option) ==
    IF is_some(option)
    THEN Returned(option, Some(option.v))
    ELSE Panicked(option, MsgDerefBeforeAssign)

\* deref_mut that hands out a reference to a copy: the write is lost
deref_mut_copy(option, w) ==
    IF is_some(option)
    THEN Returned(option, Some([option.v EXCEPT !.value = w]))
    ELSE Panicked(option, MsgDerefBeforeAssign)

\* deref_mut that panics with the message of clear
deref_mut_wrong_msg(option, w) ==
    IF is_some(option)
    THEN Returned(Some([option.v EXCEPT !.value = w]),
                  Some([option.v EXCEPT !.value = w]))
    ELSE Panicked(option, MsgClearWithoutValue)

\* fn deref_mut(&mut self) -> &mut T, followed by the caller's write of the
\* field `value` through the returned reference (X.value = w)
deref_mut(option, w) ==
    IF is_some(option)
    THEN Returned(Some([option.v EXCEPT !.value = w]),
                  Some([option.v EXCEPT !.value = w]))
    ELSE Panicked(option, MsgDerefBeforeAssign)

(* ---- state ----------------------------------------------------------- *)
VARIABLES
    val,        \* LateStatic.val: the content of the UnsafeCell<Option<T>>
    last,       \* the most recent call: op, argument, slot before, outcome
    prev,       \* the call before that
    nAssign,    \* number of calls to assign that returned normally
    nClear,     \* number of calls to clear that returned normally
    panicked,   \* some call has panicked
    misused,    \* some call was issued with its precondition violated
    shadow,     \* what the calls that returned say the slot holds: the value
                \* of the latest successful assign, as written to since
    thr,        \* per thread: position in its call, the call, its outcome
    held        \* the &T a caller keeps from a deref, if any

vars == <<val, last, prev, nAssign, nClear, panicked, misused, shadow, thr, held>>

Threads == 1..NThreads

\* a thread that is not inside a call and has not made one
IdleThread == [pc |-> "idle", op |-> "none", arg |-> None,
               seen |-> None, pre |-> None, outcome |-> "none"]

\* the record kept of a call
Call(op, arg, pre, res) ==
    [op |-> op, arg |-> arg, pre |-> pre,
     outcome |-> res.outcome, msg |-> res.msg, ret |-> res.ret]

NoCall == [op |-> "none", arg |-> None, pre |-> None,
           outcome |-> "ok", msg |-> NoMsg, ret |-> None]

\* static X: LateStatic<Foo> = LateStatic::new();
Init ==
    /\ val = new
    /\ last = Call("new", None, None, Returned(new, None))
    /\ prev = NoCall
    /\ nAssign = 0
    /\ nClear = 0
    /\ panicked = FALSE
    /\ misused = FALSE
    /\ shadow = None
    /\ thr = [t \in Threads |-> IdleThread]
    /\ held = None

\* bookkeeping common to every call
Record(op, arg, res, violated) ==
    /\ val' = res.val
    /\ prev' = last
    /\ last' = Call(op, arg, val, res)
    /\ panicked' = (panicked \/ res.outcome = "panic")
    /\ misused' = (misused \/ violated)
    /\ shadow' = IF res.outcome # "ok" THEN shadow
                 ELSE IF op = "assign" THEN arg
                 ELSE IF op = "clear" THEN None
                 ELSE IF op = "deref_mut" /\ is_some(shadow)
                      THEN Some([shadow.v EXCEPT !.value = arg.v])
                 ELSE shadow

\* LateStatic::assign(&X, v)
Assign(v) ==
    /\ is_some(val) \/ nAssign < MaxAssigns
    /\ Record("assign", Some(v), assign(val, v), is_some(val))
    /\ nAssign' = IF assign(val, v).outcome = "ok" THEN nAssign + 1 ELSE nAssign
    /\ UNCHANGED <<nClear, thr, held>>

\* LateStatic::clear(&X)
Clear ==
    /\ Record("clear", None, clear(val), ~is_some(val))
    /\ nClear' = IF clear(val).outcome = "ok" THEN nClear + 1 ELSE nClear
    /\ UNCHANGED <<nAssign, thr, held>>

\* LateStatic::has_value(&X)
HasValue ==
    /\ Record("has_value", None, Returned(val, Some(has_value(val))), FALSE)
    /\ UNCHANGED <<nAssign, nClear, thr, held>>

\* X.value (read through Deref)
Deref ==
    /\ Record("deref", None, deref(val), ~is_some(val))
    /\ UNCHANGED <<nAssign, nClear, thr, held>>

\* X.value = w (write through DerefMut)
DerefMut(w) ==
    /\ Record("deref_mut", Some(w), deref_mut(val, w), ~is_some(val))
    /\ UNCHANGED <<nAssign, nClear, thr, held>>

Next ==
    \/ \E v \in Foo : Assign(v)
    \/ Clear
    \/ HasValue
    \/ Deref
    \/ \E w \in Values : DerefMut(w)

Spec == Init /\ [][Next]_vars

(* ====================================================================== *)
(* Threads sharing the static (unsafe impl Sync), the caller serializing  *)
(* the calls: a call to assign is one atomic step.  Every thread calls    *)
(* assign once on the container created by new().                         *)
(* ====================================================================== *)

\* the thread's record of a call that has ended
Ended(op, arg, seen, pre, outcome) ==
    [pc |-> "done", op |-> op, arg |-> arg,
     seen |-> seen, pre |-> pre, outcome |-> outcome]

\* thread t: LateStatic::assign(&X, v) under the caller's synchronization
SyncAssign(t, v) ==
    /\ thr[t].pc = "idle"
    /\ Record("assign", Some(v), assign(val, v), is_some(val))
    /\ nAssign' = IF assign(val, v).outcome = "ok" THEN nAssign + 1 ELSE nAssign
    /\ thr' = [thr EXCEPT ![t] =
                  Ended("assign", Some(v), val, val, assign(val, v).outcome)]
    /\ UNCHANGED <<nClear, held>>

SyncNext == \E t \in Threads : \E v \in Foo : SyncAssign(t, v)

SpecSync == Init /\ [][SyncNext]_vars

(* ====================================================================== *)
(* Threads calling assign and clear with no synchronization.  The body of *)
(* assign is a read of the slot, option.is_some(), followed by a write of *)
(* Some(val) into it; that of clear is a read, has_value, followed by a   *)
(* write of None.  Other threads run between the two.  Which of two       *)
(* racing writes lands last is the choice of the interleaving.            *)
(* ====================================================================== *)
Racers == 1..NRacers

\* the thread has passed the check of its call and not written yet
Checked(op, arg, seen) ==
    [pc |-> "write", op |-> op, arg |-> arg,
     seen |-> seen, pre |-> None, outcome |-> "none"]

\* the thread's call has ended; it may call again
Back(op, arg, seen, pre, outcome) ==
    [pc |-> "idle", op |-> op, arg |-> arg,
     seen |-> seen, pre |-> pre, outcome |-> outcome]

\* a store into the slot that first checks it is the expected one
store_if_unchanged(option, new_content, seen) ==
    IF option = seen
    THEN Returned(new_content, None)
    ELSE Panicked(option, MsgSecondAssign)

\* *option = Some(val)  /  *option = None : the write of assign and clear,
\* which takes no account of what the check saw
store(option, new_content, seen) == Returned(new_content, None)

\* assign, up to the test of option.is_some()
AssignCheck(t, v) ==
    /\ thr[t].pc = "idle"
    /\ thr' = [thr EXCEPT ![t] =
                  IF is_some(val)
                  THEN Back("assign", Some(v), val, val, "panic")
                  ELSE Checked("assign", Some(v), val)]
    /\ UNCHANGED <<val, last, prev, nAssign, nClear, panicked, misused,
                   shadow, held>>

\* assign, the else branch: *option = Some(val)
AssignWrite(t) ==
    /\ thr[t].pc = "write"
    /\ thr[t].op = "assign"
    /\ val' = store(val, thr[t].arg, thr[t].seen).val
    /\ thr' = [thr EXCEPT ![t] =
                  Back("assign", thr[t].arg, thr[t].seen, val,
                       store(val, thr[t].arg, thr[t].seen).outcome)]
    /\ UNCHANGED <<last, prev, nAssign, nClear, panicked, misused,
                   shadow, held>>

\* clear, up to the test of !Self::has_value(instance)
ClearCheck(t) ==
    /\ thr[t].pc = "idle"
    /\ thr' = [thr EXCEPT ![t] =
                  IF ~has_value(val)
                  THEN Back("clear", None, val, val, "panic")
                  ELSE Checked("clear", None, val)]
    /\ UNCHANGED <<val, last, prev, nAssign, nClear, panicked, misused,
                   shadow, held>>

\* clear, after the test: *option = None
ClearWrite(t) ==
    /\ thr[t].pc = "write"
    /\ thr[t].op = "clear"
    /\ val' = store(val, None, thr[t].seen).val
    /\ thr' = [thr EXCEPT ![t] =
                  Back("clear", None, thr[t].seen, val,
                       store(val, None, thr[t].seen).outcome)]
    /\ UNCHANGED <<last, prev, nAssign, nClear, panicked, misused,
                   shadow, held>>

RaceNext ==
    \E t \in Racers :
        \/ \E v \in Foo : AssignCheck(t, v)
        \/ AssignWrite(t)
        \/ ClearCheck(t)
        \/ ClearWrite(t)

SpecRace == Init /\ [][RaceNext]_vars

(* ====================================================================== *)
(* One caller that keeps the &T returned by deref.  deref(&self) ties the *)
(* reference to a shared borrow of the container, and assign and clear    *)
(* take a shared reference too, so the borrow checker lets them be called *)
(* while the &T is alive.  A read through a reference whose value clear   *)
(* has dropped is undefined behaviour: it may yield any value.            *)
(* ====================================================================== *)

\* the reference: the occupancy it was taken in and the value it pointed at
Ref(occ, x) == Some([occ |-> occ, v |-> x])

\* clear has dropped the value the kept reference points at
Dangling == is_some(held) /\ nClear >= held.v.occ

\* let r: &Foo = &*X;
Borrow ==
    /\ ~is_some(held)
    /\ Record("deref", None, deref(val), ~is_some(val))
    /\ held' = IF deref(val).outcome = "ok"
               THEN Ref(nAssign, deref(val).ret.v)
               ELSE held
    /\ UNCHANGED <<nAssign, nClear, thr>>

\* r.value, read through the kept reference
ReadRef ==
    /\ is_some(held)
    /\ \E x \in (IF Dangling THEN Foo ELSE {val.v}) :
          Record("read_ref", None, Returned(val, Some(x)), Dangling)
    /\ UNCHANGED <<nAssign, nClear, thr, held>>

\* r goes out of scope
Release ==
    /\ is_some(held)
    /\ held' = None
    /\ UNCHANGED <<val, last, prev, nAssign, nClear, panicked, misused,
                   shadow, thr>>

RefNext ==
    \/ \E v \in Foo : Assign(v)
    \/ Clear
    \/ Borrow
    \/ ReadRef
    \/ Release

SpecRef == Init /\ [][RefNext]_vars

(* ====================================================================== *)
(* Properties                                                             *)
(* ====================================================================== *)

\* C1: for every value v, assign(v) on an EMPTY container returns normally,
\* and immediately afterwards has_value returns true and the read-view
\* yields exactly v.
C1_AssignOnEmpty ==
    (last.op = "assign" /\ ~is_some(last.pre)) =>
        /\ last.outcome = "ok"
        /\ has_value(val)
        /\ deref(val).outcome = "ok"
        /\ deref(val).ret = last.arg

C1_Witness ==
    /\ last.op = "assign"
    /\ ~is_some(last.pre)
    /\ last.arg = Some([value |-> MaxValue])
    /\ val = Some([value |-> MaxValue])

\* C2: assign on an OCCUPIED container panics for every new value (also one
\* equal to the stored value) and does not overwrite: the slot still holds
\* the value it held before the call.
C2_SecondAssignPanics ==
    (last.op = "assign" /\ is_some(last.pre)) =>
        /\ last.outcome = "panic"
        /\ last.msg = MsgSecondAssign
        /\ val = last.pre

C2_Witness ==
    /\ last.op = "assign"
    /\ is_some(last.pre)
    /\ last.arg # last.pre
    /\ last.outcome = "panic"
    /\ prev.op = "assign"
    /\ prev.outcome = "panic"
    /\ prev.arg = prev.pre

\* C3: deref and deref_mut on an EMPTY container both panic, hand out no
\* value (neither a default nor the value held before a clear), and leave
\* the container EMPTY; for a fresh container and for a cleared one.
C3_DerefEmptyPanics ==
    (last.op \in {"deref", "deref_mut"} /\ ~is_some(last.pre)) =>
        /\ last.outcome = "panic"
        /\ last.msg = MsgDerefBeforeAssign
        /\ last.ret = None
        /\ val = None

C3_Witness ==
    /\ last.op = "deref_mut"
    /\ last.outcome = "panic"
    /\ prev.op = "deref"
    /\ prev.outcome = "panic"
    /\ nClear >= 1
    /\ val = None

\* C4: a freshly constructed container is EMPTY: has_value returns false
\* as long as no assign has been performed.
C4_NewIsEmpty ==
    /\ last.op = "new" => (val = None /\ ~has_value(val))
    /\ (last.op = "has_value" /\ nAssign = 0) => last.ret = Some(FALSE)

C4_Witness ==
    /\ last.op = "has_value"
    /\ prev.op = "new"
    /\ nAssign = 0
    /\ last.ret = Some(FALSE)

\* C5: clear on an OCCUPIED container returns normally and leaves it EMPTY:
\* has_value returns false immediately afterwards and the value held before
\* is no longer in the slot.
C5_ClearOccupied ==
    (last.op = "clear" /\ is_some(last.pre)) =>
        /\ last.outcome = "ok"
        /\ ~has_value(val)
        /\ val = None
        /\ val # last.pre

C5_Witness ==
    /\ last.op = "clear"
    /\ is_some(last.pre)
    /\ last.outcome = "ok"
    /\ val = None

\* C6: clear on an EMPTY container panics and leaves it EMPTY, for a
\* container that was never assigned and for a second clear right after a
\* successful one.
C6_ClearEmptyPanics ==
    /\ (last.op = "clear" /\ ~is_some(last.pre)) =>
          /\ last.outcome = "panic"
          /\ last.msg = MsgClearWithoutValue
          /\ val = None
    /\ (last.op = "clear" /\ prev.op = "clear" /\ prev.outcome = "ok") =>
          /\ last.outcome = "panic"
          /\ val = None

C6_Witness ==
    /\ last.op = "clear"
    /\ last.outcome = "panic"
    /\ prev.op = "clear"
    /\ prev.outcome = "ok"
    /\ val = None

C8_WriteObserved ==
    /\ (last.op = "deref_mut" /\ is_some(last.pre)) =>
          /\ last.outcome = "ok"
          /\ has_value(val)
          /\ val.v.value = last.arg.v
          /\ deref(val).ret.v.value = last.arg.v
    /\ (last.op \in {"deref", "has_value"}
          /\ prev.op = "deref_mut" /\ prev.outcome = "ok") =>
          /\ has_value(val)
          /\ deref(val).ret.v.value = prev.arg.v
          /\ last.op = "deref" => last.ret.v.value = prev.arg.v

C8_Witness ==
    /\ last.op = "deref"
    /\ last.outcome = "ok"
    /\ prev.op = "deref_mut"
    /\ prev.outcome = "ok"
    /\ is_some(prev.pre)
    /\ prev.pre.v.value # prev.arg.v
    /\ last.ret.v.value = prev.arg.v

C10_PanicIffMisuse ==
    /\ last.op = "assign" =>
          /\ last.outcome = "panic" <=> is_some(last.pre)
          /\ last.msg = IF is_some(last.pre) THEN MsgSecondAssign ELSE NoMsg
    /\ last.op = "clear" =>
          /\ last.outcome = "panic" <=> ~is_some(last.pre)
          /\ last.msg = IF is_some(last.pre) THEN NoMsg ELSE MsgClearWithoutValue
    /\ last.op \in {"deref", "deref_mut"} =>
          /\ last.outcome = "panic" <=> ~is_some(last.pre)
          /\ last.msg = IF is_some(last.pre) THEN NoMsg ELSE MsgDerefBeforeAssign
    /\ last.op = "has_value" => (last.outcome = "ok" /\ last.msg = NoMsg)
    /\ panicked <=> misused

C10_Witness ==
    /\ ~misused
    /\ ~panicked
    /\ nAssign = 2
    /\ nClear = 1
    /\ last.op = "deref_mut"
    /\ last.outcome = "ok"
    /\ prev.op = "deref"
    /\ prev.outcome = "ok"

\* C11: occupancy changes only through an assign that returns (EMPTY to
\* OCCUPIED) or a clear that returns (OCCUPIED to EMPTY).  has_value, deref
\* and every call that panics leave the slot as it was; deref_mut leaves
\* the occupancy as it was.
C11_Frame ==
    [][ /\ (is_some(val') # is_some(val)) =>
              /\ last'.op \in {"assign", "clear"}
              /\ last'.outcome = "ok"
              /\ (last'.op = "assign") <=> ~is_some(val)
        /\ (last'.op \in {"has_value", "deref"} \/ last'.outcome = "panic") =>
              val' = val
        /\ (last'.op = "deref_mut") => (is_some(val') <=> is_some(val))
      ]_vars

C11_Witness ==
    /\ last.op = "deref"
    /\ last.outcome = "ok"
    /\ val = last.pre
    /\ prev.op = "assign"
    /\ prev.outcome = "panic"
    /\ prev.arg # prev.pre
    /\ nClear >= 1

\* C12: after any sequence of completed calls, successful assigns minus
\* successful clears is 0 or 1; has_value returns true exactly when it is
\* 1, and then the read-view yields the value of the latest successful
\* assign as modified by the later writes through the write-view.
C12_Balance ==
    /\ nAssign - nClear \in {0, 1}
    /\ has_value(val) <=> (nAssign - nClear = 1)
    /\ (last.op = "has_value") => (last.ret = Some(nAssign - nClear = 1))
    /\ (nAssign - nClear = 1) =>
          /\ deref(val).outcome = "ok"
          /\ deref(val).ret = shadow

C12_Witness ==
    /\ nAssign = 2
    /\ nClear = 1
    /\ panicked
    /\ last.op = "deref"
    /\ last.ret = shadow
    /\ prev.op = "deref_mut"
    /\ prev.outcome = "ok"
    /\ prev.pre # val

C14_OneWinner ==
    LET won == {t \in Threads : thr[t].outcome = "ok"}
        lost == {t \in Threads : thr[t].outcome = "panic"}
        done == {t \in Threads : thr[t].pc = "done"}
    IN  /\ done = won \cup lost
        /\ done # {} => Cardinality(won) = 1
        /\ Cardinality(lost) = IF done = {} THEN 0 ELSE Cardinality(done) - 1
        /\ \A t \in won : val = thr[t].arg
        /\ \A t \in lost : thr[t].seen = val

C14_Witness ==
    /\ \A t \in Threads : thr[t].pc = "done"
    /\ thr[NThreads].outcome = "ok"
    /\ val = thr[NThreads].arg
    /\ \A t \in Threads \ {NThreads} :
          /\ thr[t].outcome = "panic"
          /\ thr[t].arg # val

\* C15: the container gives no atomicity: in assign and in clear the check
\* and the write are separate steps and the write is unconditional.  A
\* thread that passed the check returns normally and stores its value (or
\* empties the slot) whatever the slot holds by then, so two concurrent
\* assigns on an EMPTY container can both return normally, one value
\* overwriting the other, with no panic.
C15_NoAtomicity ==
    [][ \A t \in Racers :
          (thr[t].pc = "write" /\ thr'[t].pc = "idle") =>
              /\ thr'[t].outcome = "ok"
              /\ val' = thr[t].arg
      ]_vars

C15_Witness ==
    \E t, u \in Racers :
        /\ t # u
        /\ thr[t].pc = "idle" /\ thr[u].pc = "idle"
        /\ thr[t].op = "assign" /\ thr[u].op = "assign"
        /\ thr[t].outcome = "ok" /\ thr[u].outcome = "ok"
        /\ thr[t].seen = None /\ thr[u].seen = None
        /\ thr[u].pre = None
        /\ thr[t].pre = thr[u].arg
        /\ thr[t].arg # thr[u].arg
        /\ val = thr[t].arg

\* C16: a read-view obtained while the container is OCCUPIED never refers
\* to a released value: as long as the reference is held the container
\* stays OCCUPIED with that same value, no clear having succeeded since the
\* reference was taken.
C16_ReadViewStaysValid ==
    is_some(held) =>
        /\ is_some(val)
        /\ val.v = held.v.v
        /\ nClear < held.v.occ

====
